---- MODULE Spec2Model ----
(***************************************************************************)
(* The parallel stage of the pipeline package (parallel.go): the stage     *)
(* event loop Run, the fan-out/fan-in executor executeTask and the task    *)
(* runner goroutines it launches, together with the environment the stage  *)
(* talks to through StageParams (Input, Output, NewData, ProcessedData,    *)
(* the Error sink, the requeue DataQueue and the context).                 *)
(*                                                                         *)
(* A send on an unbuffered channel is modelled by the sending action: the  *)
(* action is taken when a receiver is ready, and the sender stays blocked  *)
(* for as long as the action is not taken.  A Go select with several ready *)
(* cases is a nondeterministic choice among the corresponding actions.     *)
(* Statements that touch only the goroutine's own state are folded into    *)
(* the communication step that precedes them.                              *)
(***************************************************************************)
EXTENDS Naturals, Sequences, FiniteSets

\* len(p.tasks): the number of tasks the stage was built with (N >= 1).
NumTasks == 2

\* The number of elements the environment supplies in one run, over Input and
\* the requeue queue together.
MaxItems == 2

\* The number of Process calls that return a non-nil error in one run.
MaxErrors == 1

Items == 1..MaxItems
Tasks == 1..NumTasks

\* Data values are numbered: item a owns the numbers a * Stride + 0..Stride-1,
\* so that the original, its clones and what its tasks return are all
\* different values.  Nil is the nil Data a task may return.
Stride == NumTasks + 2
Nil == 0
Orig(a) == a * Stride
\* data.Clone() in iteration k of the dispatch loop: a value of its own.
CloneOf(a, k) == a * Stride + k
\* The non-nil Data a task of item a returns from Process.
TaskItem(a) == a * Stride + NumTasks + 1

Originals == {Orig(a) : a \in Items}
Clones == {CloneOf(a, k) : a \in Items, k \in Tasks}
AllData == Originals \cup Clones

VARIABLES
    ctxDone,      \* ctx.Done() is closed
    inputClosed,  \* sp.Input() is closed
    queue,        \* sp.DataQueue(): the kinds of the elements waiting in it
    signal,       \* sp.DataQueue().Signal() is ready
    loopPc,       \* Run: "select", "call" (inside executeTask), "returned"
    observed,     \* the terminal case Run's select took: "none", "ctx", "closed"
    ex,           \* the executeTask frame: pc, data, i, j, failed
    runners,      \* where each task runner goroutine is, by (item, task index)
    done,         \* the done channel of each executeTask call
    newData,      \* sends received on sp.NewData(), per value
    processed,    \* sends received on sp.ProcessedData(), per value
    marked,       \* MarkAsProcessed calls, per value
    output,       \* the values received on sp.Output(), in order
    errors,       \* the number of entries of sp.Error()
    created,      \* data.Clone() calls, per item
    procErr,      \* the number of Process calls that returned a non-nil error
    sawNil,       \* a nil value was sent on the item's done channel
    status,       \* the fate of each item's executeTask call
    order,        \* the items in the order executeTask was called on them
    emptyPops     \* the signals of the queue that gave the loop no item

vars == <<ctxDone, inputClosed, queue, signal, loopPc, observed, ex, runners,
          done, newData, processed, marked, output, errors, created, procErr,
          sawNil, status, order, emptyPops>>

envVars == <<ctxDone, inputClosed, queue, signal>>
logVars == <<newData, processed, marked, output, errors, created, procErr,
             sawNil, emptyPops>>

IdleEx == [pc |-> "idle", data |-> 0, i |-> 0, j |-> 0, failed |-> FALSE]

Inc(f, x) == [f EXCEPT ![x] = @ + 1]

Resolved == {"forwarded", "dropped", "abandoned", "unsent"}

\* The elements the environment has brought into being so far: those the
\* loop admitted, those waiting in the queue and those the signal case took
\* from the queue without admitting an item.
Supplied == Len(order) + Len(queue) + emptyPops

Init ==
    /\ ctxDone = FALSE
    /\ inputClosed = FALSE
    /\ queue = <<>>
    /\ signal = FALSE
    /\ loopPc = "select"
    /\ observed = "none"
    /\ ex = IdleEx
    /\ runners = [r \in Items \X Tasks |-> "none"]
    /\ done = [a \in Items |-> <<>>]
    /\ newData = [v \in AllData |-> 0]
    /\ processed = [v \in AllData |-> 0]
    /\ marked = [v \in AllData |-> 0]
    /\ output = <<>>
    /\ errors = 0
    /\ created = [a \in Items |-> 0]
    /\ procErr = 0
    /\ sawNil = [a \in Items |-> FALSE]
    /\ status = [a \in Items |-> "none"]
    /\ order = <<>>
    /\ emptyPops = 0

----
\* The environment.

\* The context is cancelled.
Cancel ==
    /\ ~ctxDone
    /\ ctxDone' = TRUE
    /\ UNCHANGED <<inputClosed, queue, signal, loopPc, observed, ex, runners,
                   done, status, order>>
    /\ UNCHANGED logVars

\* The upstream closes Input.
CloseInput ==
    /\ ~inputClosed
    /\ inputClosed' = TRUE
    /\ UNCHANGED <<ctxDone, queue, signal, loopPc, observed, ex, runners,
                   done, status, order>>
    /\ UNCHANGED logVars

\* A producer appends an element to the requeue queue, which makes the
\* readiness signal fire.  The element is a Data or something else.
QueueAppend ==
    /\ Supplied < MaxItems
    /\ \E kind \in {"data", "other"} : queue' = Append(queue, kind)
    /\ signal' = TRUE
    /\ UNCHANGED <<ctxDone, inputClosed, loopPc, observed, ex, runners, done,
                   status, order>>
    /\ UNCHANGED logVars

----
\* Run: the stage event loop.

\* p.executeTask(ctx, data, sp) on the next item: the call, the allocation of
\* the done channel and the first data.Clone() of the dispatch loop.
AdmitAsync ==
    LET a == Len(order) + 1
    IN  /\ ex' = [pc |-> "publish", data |-> a, i |-> 1, j |-> 0,
                  failed |-> FALSE]
        /\ done' = [done EXCEPT ![a] = <<>>]
        /\ created' = Inc(created, a)
        /\ status' = [status EXCEPT ![a] = "active"]
        /\ order' = Append(order, a)
        /\ UNCHANGED loopPc

Admit ==
    LET a == Len(order) + 1
    IN  /\ loopPc' = "call"
        /\ ex' = [pc |-> "publish", data |-> a, i |-> 1, j |-> 0,
                  failed |-> FALSE]
        /\ done' = [done EXCEPT ![a] = <<>>]
        /\ created' = Inc(created, a)
        /\ status' = [status EXCEPT ![a] = "active"]
        /\ order' = Append(order, a)

\* case <-ctx.Done(): return
RunCtxDoneBreak ==
    /\ loopPc = "select"
    /\ ctxDone
    /\ observed' = "ctx"
    /\ UNCHANGED <<loopPc, ex, runners, done, status, order>>
    /\ UNCHANGED envVars
    /\ UNCHANGED logVars

RunCtxDone ==
    /\ loopPc = "select"
    /\ ctxDone
    /\ loopPc' = "returned"
    /\ observed' = "ctx"
    /\ UNCHANGED <<ex, runners, done, status, order>>
    /\ UNCHANGED envVars
    /\ UNCHANGED logVars

\* case dataIn, ok := <-sp.Input() with ok: the upstream sender hands over an
\* item.
RunInput ==
    /\ loopPc = "select"
    /\ ~inputClosed
    /\ Supplied < MaxItems
    /\ Admit
    /\ UNCHANGED <<ctxDone, inputClosed, queue, signal, observed, runners>>
    /\ UNCHANGED <<newData, processed, marked, output, errors, procErr,
                   sawNil, emptyPops>>

\* case dataIn, ok := <-sp.Input() with !ok: return
RunInputClosedContinue ==
    /\ loopPc = "select"
    /\ inputClosed
    /\ observed' = "closed"
    /\ UNCHANGED <<loopPc, ex, runners, done, status, order>>
    /\ UNCHANGED envVars
    /\ UNCHANGED logVars

RunInputClosed ==
    /\ loopPc = "select"
    /\ inputClosed
    /\ loopPc' = "returned"
    /\ observed' = "closed"
    /\ UNCHANGED <<ex, runners, done, status, order>>
    /\ UNCHANGED envVars
    /\ UNCHANGED logVars

\* case <-sp.DataQueue().Signal(): the non-blocking Next() and the type
\* assertion d.(Data).  Next() finds the head of the queue, or nothing when
\* another consumer took the element that made the signal fire.  When Next()
\* finds nothing, or an element that is not a Data, the loop goes back to
\* its select.
RunSignalBypass ==
    /\ loopPc = "select"
    /\ signal
    /\ queue' = Tail(queue)
    /\ signal' = (Tail(queue) # <<>>)
    /\ \/ /\ Head(queue) = "data"
          /\ output' = Append(output, Orig(Len(order) + 1))
          /\ status' = [status EXCEPT ![Len(order) + 1] = "forwarded"]
          /\ order' = Append(order, Len(order) + 1)
          /\ UNCHANGED <<loopPc, ex, done, created, emptyPops>>
       \/ /\ emptyPops' = emptyPops + 1
          /\ UNCHANGED <<loopPc, ex, done, created, status, order, output>>
    /\ UNCHANGED <<ctxDone, inputClosed, observed, runners>>
    /\ UNCHANGED <<newData, processed, marked, errors, procErr, sawNil>>

RunSignalReturnsOnEmpty ==
    /\ loopPc = "select"
    /\ signal
    /\ queue' = Tail(queue)
    /\ signal' = (Tail(queue) # <<>>)
    /\ \/ /\ Head(queue) = "data"
          /\ Admit
          /\ UNCHANGED emptyPops
       \/ /\ emptyPops' = emptyPops + 1
          /\ loopPc' = "returned"
          /\ UNCHANGED <<ex, done, created, status, order>>
    /\ UNCHANGED <<ctxDone, inputClosed, observed, runners>>
    /\ UNCHANGED <<newData, processed, marked, output, errors, procErr,
                   sawNil>>

RunSignal ==
    /\ loopPc = "select"
    /\ signal
    /\ queue' = Tail(queue)
    /\ signal' = (Tail(queue) # <<>>)
    /\ \/ /\ Head(queue) = "data"
          /\ Admit
          /\ UNCHANGED emptyPops
       \/ /\ emptyPops' = emptyPops + 1
          /\ UNCHANGED <<loopPc, ex, done, created, status, order>>
    /\ UNCHANGED <<ctxDone, inputClosed, observed, runners>>
    /\ UNCHANGED <<newData, processed, marked, output, errors, procErr,
                   sawNil>>

Run == RunCtxDone \/ RunInput \/ RunInputClosed \/ RunSignal

----
\* executeTask: the fan-out/fan-in executor.

\* return from executeTask: Run goes back to its select.
Return(st) ==
    /\ status' = [status EXCEPT ![ex.data] = st]
    /\ ex' = IdleEx
    /\ loopPc' = "select"

\* The dispatch loop's test i < len(p.tasks) after iteration i.
MoreToDispatchOffByOne(i) == i < NumTasks + 1

MoreToDispatch(i) == i < NumTasks

\* case sp.NewData() <- c, then go func(idx, clone): the clone is received
\* on NewData and its task runner is launched; the loop goes on to the next
\* data.Clone(), or to the join.
ExPublishUnannounced ==
    /\ ex.pc = "publish"
    /\ runners' = [runners EXCEPT ![<<ex.data, ex.i>>] = "process"]
    /\ IF MoreToDispatch(ex.i)
       THEN /\ ex' = [ex EXCEPT !.i = @ + 1]
            /\ created' = Inc(created, ex.data)
       ELSE /\ ex' = [ex EXCEPT !.i = @ + 1, !.pc = "join"]
            /\ UNCHANGED created
    /\ UNCHANGED <<loopPc, observed, done, status, order>>
    /\ UNCHANGED envVars
    /\ UNCHANGED <<newData, processed, marked, output, errors, procErr,
                   sawNil, emptyPops>>

ExPublish ==
    /\ ex.pc = "publish"
    /\ newData' = Inc(newData, CloneOf(ex.data, ex.i))
    /\ runners' = [runners EXCEPT ![<<ex.data, ex.i>>] = "process"]
    /\ IF MoreToDispatch(ex.i)
       THEN /\ ex' = [ex EXCEPT !.i = @ + 1]
            /\ created' = Inc(created, ex.data)
       ELSE /\ ex' = [ex EXCEPT !.i = @ + 1, !.pc = "join"]
            /\ UNCHANGED created
    /\ UNCHANGED <<loopPc, observed, done, status, order>>
    /\ UNCHANGED envVars
    /\ UNCHANGED <<processed, marked, output, errors, procErr, sawNil,
                   emptyPops>>

\* case <-ctx.Done(): return, in the select that publishes a clone.
ExPublishCancelMarks ==
    /\ ex.pc = "publish"
    /\ ctxDone
    /\ processed' = Inc(processed, Orig(ex.data))
    /\ marked' = Inc(marked, Orig(ex.data))
    /\ Return("abandoned")
    /\ UNCHANGED <<observed, runners, done, order>>
    /\ UNCHANGED envVars
    /\ UNCHANGED <<newData, output, errors, created, procErr, sawNil,
                   emptyPops>>

ExPublishCancel ==
    /\ ex.pc = "publish"
    /\ ctxDone
    /\ Return("abandoned")
    /\ UNCHANGED <<observed, runners, done, order>>
    /\ UNCHANGED envVars
    /\ UNCHANGED logVars

\* if d := <-done; d == nil { failed = true }
JoinFailedLast(failed, d) == d = Nil

JoinFailedOnError(failed, d) == failed \/ d = Nil \/ errors > 0

JoinFailed(failed, d) == failed \/ d = Nil

\* One receive of the join loop; after the last one, the if failed test.
ExJoinCancellable ==
    /\ ex.pc = "join"
    /\ \/ /\ done[ex.data] # <<>>
          /\ LET d == Head(done[ex.data])
                 f == JoinFailed(ex.failed, d)
             IN  ex' = [ex EXCEPT !.j = @ + 1,
                                  !.failed = f,
                                  !.pc = IF ex.j + 1 < NumTasks THEN "join"
                                         ELSE IF f THEN "announce"
                                         ELSE "forward"]
          /\ done' = [done EXCEPT ![ex.data] = Tail(@)]
          /\ UNCHANGED <<loopPc, status>>
       \/ /\ ctxDone
          /\ Return("unsent")
          /\ UNCHANGED done
    /\ UNCHANGED <<observed, runners, order>>
    /\ UNCHANGED envVars
    /\ UNCHANGED logVars

ExJoin ==
    /\ ex.pc = "join"
    /\ done[ex.data] # <<>>
    /\ LET d == Head(done[ex.data])
           f == JoinFailed(ex.failed, d)
       IN  ex' = [ex EXCEPT !.j = @ + 1,
                            !.failed = f,
                            !.pc = IF ex.j + 1 < NumTasks THEN "join"
                                   ELSE IF f THEN "announce" ELSE "forward"]
    /\ done' = [done EXCEPT ![ex.data] = Tail(@)]
    /\ UNCHANGED <<loopPc, observed, runners, status, order>>
    /\ UNCHANGED envVars
    /\ UNCHANGED logVars

\* sp.ProcessedData() <- data, on the failed path.
ExAnnounceSkip ==
    /\ ex.pc = "announce"
    /\ ex' = [ex EXCEPT !.pc = "mark"]
    /\ UNCHANGED <<loopPc, observed, runners, done, status, order>>
    /\ UNCHANGED envVars
    /\ UNCHANGED logVars

ExAnnounceOrCancel ==
    /\ ex.pc = "announce"
    /\ \/ /\ processed' = Inc(processed, Orig(ex.data))
          /\ ex' = [ex EXCEPT !.pc = "mark"]
          /\ UNCHANGED <<loopPc, status>>
       \/ /\ ctxDone
          /\ Return("dropped")
          /\ UNCHANGED processed
    /\ UNCHANGED <<observed, runners, done, order>>
    /\ UNCHANGED envVars
    /\ UNCHANGED <<newData, marked, output, errors, created, procErr, sawNil,
                   emptyPops>>

ExAnnounce ==
    /\ ex.pc = "announce"
    /\ processed' = Inc(processed, Orig(ex.data))
    /\ ex' = [ex EXCEPT !.pc = "mark"]
    /\ UNCHANGED <<loopPc, observed, runners, done, status, order>>
    /\ UNCHANGED envVars
    /\ UNCHANGED <<newData, marked, output, errors, created, procErr, sawNil,
                   emptyPops>>

\* data.MarkAsProcessed(); return, on the failed path.
ExMarkSkip ==
    /\ ex.pc = "mark"
    /\ Return("dropped")
    /\ UNCHANGED <<observed, runners, done, order>>
    /\ UNCHANGED envVars
    /\ UNCHANGED logVars

ExMark ==
    /\ ex.pc = "mark"
    /\ marked' = Inc(marked, Orig(ex.data))
    /\ Return("dropped")
    /\ UNCHANGED <<observed, runners, done, order>>
    /\ UNCHANGED envVars
    /\ UNCHANGED <<newData, processed, output, errors, created, procErr,
                   sawNil, emptyPops>>

\* The value of case sp.Output() <- data.
ForwardedTaskItem(a) == TaskItem(a)

Forwarded(a) == Orig(a)

\* case sp.Output() <- data: the next stage receives the value.
ExForward ==
    /\ ex.pc = "forward"
    /\ output' = Append(output, Forwarded(ex.data))
    /\ Return("forwarded")
    /\ UNCHANGED <<observed, runners, done, order>>
    /\ UNCHANGED envVars
    /\ UNCHANGED <<newData, processed, marked, errors, created, procErr,
                   sawNil, emptyPops>>

\* case <-ctx.Done(): in the select of the final send.
ExForwardCancelAnnounces ==
    /\ ex.pc = "forward"
    /\ ctxDone
    /\ processed' = Inc(processed, Orig(ex.data))
    /\ Return("unsent")
    /\ UNCHANGED <<observed, runners, done, order>>
    /\ UNCHANGED envVars
    /\ UNCHANGED <<newData, marked, output, errors, created, procErr, sawNil,
                   emptyPops>>

ExForwardCancel ==
    /\ ex.pc = "forward"
    /\ ctxDone
    /\ Return("unsent")
    /\ UNCHANGED <<observed, runners, done, order>>
    /\ UNCHANGED envVars
    /\ UNCHANGED logVars

Executor ==
    \/ ExPublish
    \/ ExPublishCancel
    \/ ExJoin
    \/ ExAnnounce
    \/ ExMark
    \/ ExForward
    \/ ExForwardCancel

----
\* The task runner goroutine of item a and task index k.

\* if err != nil { sp.Error().Append(...) }
AppendsErrorNever(err) == FALSE

AppendsError(err) == err

\* d, err := p.tasks[idx].Process(ctx, clone, tp) returns, with or without an
\* error, and the error, if any, is appended to the sink.  The returned item
\* d is not looked at before done <- d, where the model draws it.
TaskProcess(a, k) ==
    /\ runners[<<a, k>>] = "process"
    /\ \E err \in BOOLEAN :
          /\ err => procErr < MaxErrors
          /\ errors' = IF AppendsError(err) THEN errors + 1 ELSE errors
          /\ procErr' = IF err THEN procErr + 1 ELSE procErr
    /\ runners' = [runners EXCEPT ![<<a, k>>] = "announce"]
    /\ UNCHANGED <<loopPc, observed, ex, done, status, order>>
    /\ UNCHANGED envVars
    /\ UNCHANGED <<newData, processed, marked, output, created, sawNil,
                   emptyPops>>

\* sp.ProcessedData() <- clone: the log of the processed channel after it.
AnnounceCloneDropped(log, c) == log

AnnounceClone(log, c) == Inc(log, c)

\* cap(done): done := make(chan Data, len(p.tasks))
DoneCapShort == NumTasks - 1

DoneCap == NumTasks

\* sp.ProcessedData() <- clone is received; then clone.MarkAsProcessed() and
\* done <- d, where d is the item Process returned, nil or not; the
\* goroutine ends.
TaskFinishOrQuit(a, k) ==
    /\ runners[<<a, k>>] = "announce"
    /\ \/ /\ Len(done[a]) < DoneCap
          /\ processed' = AnnounceClone(processed, CloneOf(a, k))
          /\ marked' = Inc(marked, CloneOf(a, k))
          /\ \E d \in {Nil, TaskItem(a)} :
                /\ done' = [done EXCEPT ![a] = Append(@, d)]
                /\ sawNil' = [sawNil EXCEPT ![a] = @ \/ d = Nil]
       \/ /\ ctxDone
          /\ UNCHANGED <<processed, marked, done, sawNil>>
    /\ runners' = [runners EXCEPT ![<<a, k>>] = "exit"]
    /\ UNCHANGED <<loopPc, observed, ex, status, order>>
    /\ UNCHANGED envVars
    /\ UNCHANGED <<newData, output, errors, created, procErr, emptyPops>>

TaskFinish(a, k) ==
    /\ runners[<<a, k>>] = "announce"
    /\ Len(done[a]) < DoneCap
    /\ processed' = AnnounceClone(processed, CloneOf(a, k))
    /\ marked' = Inc(marked, CloneOf(a, k))
    /\ \E d \in {Nil, TaskItem(a)} :
          /\ done' = [done EXCEPT ![a] = Append(@, d)]
          /\ sawNil' = [sawNil EXCEPT ![a] = @ \/ d = Nil]
    /\ runners' = [runners EXCEPT ![<<a, k>>] = "exit"]
    /\ UNCHANGED <<loopPc, observed, ex, status, order>>
    /\ UNCHANGED envVars
    /\ UNCHANGED <<newData, output, errors, created, procErr, emptyPops>>

Runner ==
    \E a \in Items, k \in Tasks :
        \/ TaskProcess(a, k)
        \/ TaskFinish(a, k)

Env == Cancel \/ CloseInput \/ QueueAppend

Next == Env \/ Run \/ Executor \/ Runner

Spec == Init /\ [][Next]_vars

\* Go runs a goroutine whose select has a ready case, and the select picks
\* at random among its ready cases, so a case that stays ready at every
\* select of the loop, as the receive from a closed Input does, is
\* eventually taken.
FairSpec ==
    /\ Spec
    /\ WF_vars(Run)
    /\ WF_vars(RunInputClosed)

\* A step of the fan-out that needs nothing from Output: a clone is received
\* on NewData, a Process call returns, a send on ProcessedData is received,
\* the executor receives from done or marks, or the final select takes its
\* ready cancellation case.
FanOutStep ==
    \/ ExPublish
    \/ ExJoin
    \/ ExAnnounce
    \/ ExMark
    \/ ExForwardCancel
    \/ Runner

\* The fan-out's progress when its environment cooperates: NewData and
\* ProcessedData are always eventually received from and every Process call
\* returns, and the scheduler runs a goroutine that can take a step; so as
\* long as some step of the fan-out stays possible, one is eventually
\* taken.  Output is not assumed to be received from.
LiveSpec == Spec /\ WF_vars(FanOutStep)

----
\* What the properties below speak about.

InOutput(v) == \E p \in 1..Len(output) : output[p] = v

CountOut(v) == Cardinality({p \in 1..Len(output) : output[p] = v})

\* Every one of the N runners of item a has sent its outcome on done.
AllPosted(a) == \A k \in Tasks : runners[<<a, k>>] = "exit"

\* All N task outcomes of item a were success: N values were delivered on
\* the completion channel and none of them was nil.
AllSucceeded(a) == AllPosted(a) /\ ~sawNil[a]

Launched(a) == {k \in Tasks : runners[<<a, k>>] # "none"}

\* The fan-outs that ran their dispatch and their join to the end.
Joined == {"forwarded", "dropped", "unsent"}

RECURSIVE CloneAnnouncementsUpTo(_, _)
CloneAnnouncementsUpTo(a, k) ==
    IF k = 0 THEN 0
    ELSE processed[CloneOf(a, k)] + CloneAnnouncementsUpTo(a, k - 1)

\* The sends on the processed channel that belong to item a's admission.
Announcements(a) == processed[Orig(a)] + CloneAnnouncementsUpTo(a, NumTasks)

\* Input has an item ready for the loop's select.
InputReady == ~inputClosed /\ Supplied < MaxItems

----
\* C1, as claimed: once an item's fan-out has resolved, the original is on
\* Output if and only if all N task outcomes were success.
C1_ForwardedIffAllSucceeded ==
    \A a \in Items :
        status[a] \in Resolved => (InOutput(Orig(a)) <=> AllSucceeded(a))

\* C1, amended: the original is on Output only if all N task outcomes were
\* success; and an item whose N outcomes were all success is missing from
\* Output after its fan-out resolved only when the context is cancelled and
\* the cancellation won the select of the final send.
C1_ForwardedOnlyIfAllSucceeded ==
    \A a \in Items :
        /\ InOutput(Orig(a)) => AllSucceeded(a)
        /\ (status[a] \in Resolved /\ AllSucceeded(a) /\ ~InOutput(Orig(a)))
               => (status[a] = "unsent" /\ ctxDone)

C1_Witness ==
    \E a, b \in Items :
        /\ InOutput(Orig(a)) /\ AllSucceeded(a)
        /\ status[b] = "unsent" /\ AllSucceeded(b) /\ ~InOutput(Orig(b))

\* C2: every value on Output is the original of an admitted item, never a
\* clone and never an item a task returned, and no original is on Output
\* more than once.
C2_OutputIsAdmittedOriginal ==
    /\ \A p \in 1..Len(output) :
          /\ output[p] \in Originals
          /\ status[output[p] \div Stride] = "forwarded"
    /\ \A a \in Items : CountOut(Orig(a)) <= 1

C2_Witness ==
    /\ Len(output) = 2
    /\ \A a \in {1, 2} : AllSucceeded(a) /\ CountOut(Orig(a)) = 1

C5_FailedPath ==
    \A a \in Items :
        /\ (status[a] = "active" /\ AllPosted(a) /\ sawNil[a] /\ done[a] = <<>>)
               => (ex.data = a /\ ex.pc \in {"announce", "mark"})
        /\ (ex.data = a /\ ex.pc = "announce")
               => (processed[Orig(a)] = 0 /\ marked[Orig(a)] = 0)
        /\ (ex.data = a /\ ex.pc = "mark")
               => (processed[Orig(a)] = 1 /\ marked[Orig(a)] = 0)
        /\ status[a] = "dropped"
               => /\ processed[Orig(a)] = 1
                  /\ marked[Orig(a)] = 1
                  /\ Announcements(a) = NumTasks + 1
        /\ (sawNil[a] /\ status[a] # "abandoned") => ~InOutput(Orig(a))

C5_Witness ==
    \E a \in Items :
        /\ status[a] = "dropped"
        /\ ~InOutput(Orig(a))
        /\ Announcements(a) = NumTasks + 1

\* C6: the error sink holds exactly one entry per Process call that
\* returned a non-nil error, and a fan-out that was dispatched in full ends
\* only after every one of its N runners, failed siblings or not, has run
\* Process, announced its clone once and marked it once.
C6_OneEntryPerFailedTask ==
    /\ errors = procErr
    /\ \A a \in Items :
          status[a] \in Joined
              => \A k \in Tasks :
                    /\ runners[<<a, k>>] = "exit"
                    /\ processed[CloneOf(a, k)] = 1
                    /\ marked[CloneOf(a, k)] = 1

C6_Witness ==
    /\ order = <<1>>
    /\ status[1] = "dropped"
    /\ procErr = 1
    /\ errors = 1
    /\ \A k \in Tasks : processed[CloneOf(1, k)] = 1

\* C7, as claimed: for every admitted item, also when the context is
\* cancelled during dispatch, exactly N clones are created and each is
\* handed to a task runner.
C7_ExactlyNClones ==
    \A a \in Items :
        status[a] \in Resolved
            => /\ created[a] = NumTasks
               /\ \A k \in Tasks : runners[<<a, k>>] # "none"

\* C7, amended: at most N clones are created for an admitted item, and
\* exactly N when its dispatch is not cut short by cancellation; every clone
\* that was published on the new-item channel is handed to exactly one task
\* runner and is marked processed exactly once, by that runner before it
\* posts its outcome; the clone whose publish lost to the cancellation is
\* handed to no runner and is never marked.
C7_ClonesCreatedAndMarked ==
    \A a \in Items :
        /\ created[a] <= NumTasks
        /\ status[a] \in Joined => created[a] = NumTasks /\ Launched(a) = Tasks
        /\ status[a] = "abandoned" => Cardinality(Launched(a)) = created[a] - 1
        /\ status[a] = "active"
               => Cardinality(Launched(a)) \in {created[a] - 1, created[a]}
        /\ \A k \in Tasks :
              /\ newData[CloneOf(a, k)] = IF k \in Launched(a) THEN 1 ELSE 0
              /\ marked[CloneOf(a, k)] =
                     IF runners[<<a, k>>] = "exit" THEN 1 ELSE 0
              /\ k \in Launched(a) => k <= created[a]

C7_Witness ==
    \E a \in Items :
        /\ status[a] = "abandoned"
        /\ created[a] = NumTasks
        /\ runners[<<a, NumTasks>>] = "none"
        /\ marked[CloneOf(a, NumTasks)] = 0
        /\ marked[CloneOf(a, 1)] = 1

\* C8: admission is serialized.  At most one executeTask call is active;
\* every item admitted before the latest one has had its fan-out resolved
\* (forwarded, dropped or abandoned) and only admitted items have clones;
\* and while a call is active, in particular while a task of the item is
\* still inside Process after a complete dispatch, no step admits an item
\* or creates a clone of another item.
C8_Serialized ==
    /\ [](/\ Cardinality({a \in Items : status[a] = "active"}) <= 1
          /\ \A p \in 1..Len(order) :
                p < Len(order) => status[order[p]] \in Resolved
          /\ \A a \in Items :
                created[a] > 0 => \E p \in 1..Len(order) : order[p] = a
          /\ (ex.pc # "idle") <=> (loopPc = "call")
          /\ ex.pc # "idle"
                => (status[ex.data] = "active" /\ order[Len(order)] = ex.data))
    /\ [][(\E a \in Items : status[a] = "active")
             => /\ order' = order
                /\ \A b \in Items :
                      status[b] # "active" => created'[b] = created[b]]_vars

C8_Witness ==
    /\ order = <<1>>
    /\ ex.pc = "join"
    /\ runners[<<1, 1>>] = "process"
    /\ runners[<<1, NumTasks>>] = "exit"
    /\ signal
    /\ Head(queue) = "data"

\* C9, as claimed: once the context has been cancelled, no executeTask call
\* begins.
C9_NoAdmissionAfterCancel == [][ctxDone => order' = order]_vars

\* C9, amended: once the loop's select has taken the cancellation case, Run
\* has returned and stays returned, and from then on no executeTask call
\* begins, no clone is created and no task runner is launched.  (A select
\* that finds Input or the requeue signal ready together with the
\* cancellation may take either case, so an item can still be admitted
\* after the context was cancelled.)
C9_NoAdmissionAfterCancelObserved ==
    [][observed = "ctx"
         => /\ loopPc = "returned"
            /\ loopPc' = "returned"
            /\ order' = order
            /\ created' = created
            /\ newData' = newData
            /\ \A r \in Items \X Tasks :
                  runners[r] = "none" => runners'[r] = "none"]_vars

C9_Witness ==
    /\ observed = "ctx"
    /\ loopPc = "returned"
    /\ InputReady
    /\ signal

\* C10: once the loop's select has observed the closed Input, Run has
\* returned and stays returned, and no executeTask call begins afterwards;
\* and, the select being fair, a loop that waits in its select while Input
\* is closed eventually returns, unless it enters a fan-out first.
C10_ClosedInputTerminates ==
    /\ [][observed = "closed"
            => /\ loopPc = "returned"
               /\ loopPc' = "returned"
               /\ order' = order
               /\ created' = created]_vars
    /\ (inputClosed /\ loopPc = "select")
          ~> (loopPc = "returned" \/ loopPc = "call")

C10_Witness ==
    /\ observed = "closed"
    /\ loopPc = "returned"
    /\ signal
    /\ ~ctxDone

\* The requeue queue has an item for the loop: its signal is ready and the
\* element at its head is a Data.
QueueReady == signal /\ Head(queue) = "data"

\* C11: requeue parity.  Whenever the loop is at its select, an item ready
\* on Input can be admitted and so can an item at the head of the signalled
\* queue; and a step that admits an item, from either source, is taken at
\* the select with no call active and makes the same call of executeTask:
\* the loop is inside the call, the frame is at the publish of the first
\* clone with nothing received and failed unset, the item has a fresh
\* completion channel and one clone, and nothing has been announced, sent,
\* appended or marked by the step.  The two admissions differ in the source
\* alone: Input open and the queue untouched, or the head of the queue
\* removed.  Nothing of the call's state depends on the source, so the
\* fan-outs that follow are the same.
C11_RequeueParity ==
    /\ [](loopPc = "select"
             => /\ InputReady => ENABLED RunInput
                /\ QueueReady => ENABLED (RunSignal /\ order' # order))
    /\ [][order' # order
            => /\ loopPc = "select"
               /\ ex = IdleEx
               /\ order' = Append(order, Len(order) + 1)
               /\ loopPc' = "call"
               /\ ex' = [pc |-> "publish", data |-> Len(order) + 1, i |-> 1,
                         j |-> 0, failed |-> FALSE]
               /\ done' = [done EXCEPT ![Len(order) + 1] = <<>>]
               /\ created' = [created EXCEPT ![Len(order) + 1] = 1]
               /\ status' = [status EXCEPT ![Len(order) + 1] = "active"]
               /\ UNCHANGED <<runners, observed, ctxDone, inputClosed>>
               /\ UNCHANGED <<newData, processed, marked, output, errors,
                              procErr, sawNil, emptyPops>>
               /\ \/ (~inputClosed /\ queue' = queue /\ signal' = signal)
                  \/ (QueueReady /\ queue' = Tail(queue))]_vars

\* The select finds an item ready on each of the two sources: either
\* admission is the next step.
C11_Witness ==
    /\ loopPc = "select"
    /\ InputReady
    /\ QueueReady
    /\ ~ctxDone
    /\ ENABLED (RunInput /\ order' # order)
    /\ ENABLED (RunSignal /\ order' # order)

\* C12: every clone is announced on the new-item channel before it is
\* dispatched.  A task runner exists, and Process runs or has run on its
\* clone, only for a clone whose send on NewData was received, exactly once;
\* the clone the dispatch loop is about to publish has no runner yet; and a
\* step launches the runner of a clone only when the send of that clone on
\* NewData completes in it.
C12_AnnouncedBeforeDispatch ==
    /\ [](\A a \in Items, k \in Tasks :
             /\ runners[<<a, k>>] # "none" => newData[CloneOf(a, k)] = 1
             /\ (ex.pc = "publish" /\ ex.data = a /\ ex.i = k)
                    => (runners[<<a, k>>] = "none"
                        /\ newData[CloneOf(a, k)] = 0))
    /\ [][\A a \in Items, k \in Tasks :
             (runners[<<a, k>>] = "none" /\ runners'[<<a, k>>] # "none")
                 => /\ newData[CloneOf(a, k)] = 0
                    /\ newData'[CloneOf(a, k)] = 1
                    /\ runners'[<<a, k>>] = "process"]_vars

C12_Witness ==
    /\ ex.pc = "publish"
    /\ ex.i = 2
    /\ runners[<<ex.data, 1>>] = "announce"
    /\ newData[CloneOf(ex.data, 1)] = 1
    /\ newData[CloneOf(ex.data, 2)] = 0
    /\ runners[<<ex.data, 2>>] = "none"

\* The runners of item a that have posted their outcome on done.
Posted(a) == {k \in Tasks : runners[<<a, k>>] = "exit"}

\* C13: the join is not cancellable.  While the executor joins, all N
\* runners are dispatched, it has received fewer than N values and every
\* value a runner posted is either received or still in the buffer; it
\* makes the forward-or-drop decision only after exactly N receives, when
\* all N runners have posted; a completion channel carries only outcomes of
\* its own fan-out; and no step, cancelled context or not, takes the
\* executor out of the join other than the N-th receive, each receive
\* taking one value from the channel of the item being joined.
C13_JoinNotCancellable ==
    /\ [](/\ ex.pc = "join"
             => /\ ex.j < NumTasks
                /\ Launched(ex.data) = Tasks
                /\ ex.j + Len(done[ex.data]) = Cardinality(Posted(ex.data))
          /\ ex.pc \in {"announce", "mark", "forward"}
             => /\ ex.j = NumTasks
                /\ Posted(ex.data) = Tasks
                /\ done[ex.data] = <<>>
          /\ \A a \in Items :
                /\ \A p \in 1..Len(done[a]) :
                      done[a][p] \in {Nil, TaskItem(a)}
                /\ status[a] \in Joined => Posted(a) = Tasks)
    /\ [][ex.pc = "join"
            => \/ ex' = ex
               \/ /\ ex'.data = ex.data
                  /\ ex'.j = ex.j + 1
                  /\ done[ex.data] # <<>>
                  /\ done' = [done EXCEPT ![ex.data] = Tail(@)]
                  /\ ex'.pc = IF ex'.j < NumTasks THEN "join"
                              ELSE IF ex'.failed THEN "announce"
                              ELSE "forward"
                  /\ loopPc' = "call"
                  /\ status' = status]_vars

C13_Witness ==
    /\ ctxDone
    /\ ex.pc = "join"
    /\ ex.j = NumTasks - 1
    /\ done[ex.data] = <<>>
    /\ \E k \in Tasks : runners[<<ex.data, k>>] = "process"

\* The runners of item a that are launched and have not posted yet.
Pending(a) == {k \in Tasks : runners[<<a, k>>] \in {"process", "announce"}}

\* C14: each fan-out has its own completion channel of capacity N.  The
\* values buffered in it together with the runners that have still to post
\* never exceed N, so the channel has room whenever a runner is about to
\* send its outcome: the send never blocks, also for the runners of a
\* fan-out that was abandoned on cancellation, whose values stay in the
\* buffer because nobody receives them.
C14_DoneNeverBlocks ==
    \A a \in Items :
        /\ Len(done[a]) + Cardinality(Pending(a)) <= DoneCap
        /\ \A k \in Tasks :
              runners[<<a, k>>] = "announce" => Len(done[a]) < DoneCap
        /\ status[a] = "abandoned"
              => Len(done[a]) = Cardinality(Posted(a))

C14_Witness ==
    \E a, b \in Items :
        /\ status[a] = "abandoned"
        /\ Posted(a) # {}
        /\ Len(done[a]) = Cardinality(Posted(a))
        /\ Len(done[b]) = DoneCap

\* A runner whose Process call has returned and that has not posted yet.
Returned(a, k) == runners[<<a, k>>] = "announce"

\* C15, as claimed: a runner whose Process call has returned always
\* terminates, whether or not anyone receives from the processed channel.
C15_RunnerAlwaysTerminates ==
    \A a \in Items, k \in Tasks :
        Returned(a, k) ~> (runners[<<a, k>>] = "exit")

\* C15, amended: after Process has returned, the runner waits in one place
\* only, the send of its clone on the processed channel, which has no
\* cancellation alternative.  The step that completes this send also marks
\* the clone and posts the outcome, whatever the state of the context and of
\* the executor, and ends the runner; so, provided the runners' sends on
\* the processed channel are eventually received, every runner whose
\* Process returned terminates: from some point on none is left waiting.
C15_RunnerWaitsOnlyForProcessed ==
    /\ [][\A a \in Items, k \in Tasks :
             (Returned(a, k) /\ ~Returned(a, k)')
                 => /\ runners'[<<a, k>>] = "exit"
                    /\ processed'[CloneOf(a, k)] = processed[CloneOf(a, k)] + 1
                    /\ marked'[CloneOf(a, k)] = marked[CloneOf(a, k)] + 1
                    /\ Len(done'[a]) = Len(done[a]) + 1]_vars
    /\ WF_vars(\E a \in Items, k \in Tasks : TaskFinish(a, k))
          => <>[](\A a \in Items, k \in Tasks : ~Returned(a, k))

C15_Witness ==
    \E a \in Items, k \in Tasks :
        /\ status[a] = "abandoned"
        /\ ctxDone
        /\ runners[<<a, k>>] = "exit"
        /\ processed[CloneOf(a, k)] = 1
        /\ marked[CloneOf(a, k)] = 1
        /\ Len(done[a]) = 1

\* C16: cancellation winning the select that publishes the i-th clone.  The
\* step returns from executeTask at once: the context is cancelled, no value
\* of the completion channel has been received, the i-1 dispatched runners
\* are left where they are, the clone in hand is not announced, and nothing
\* is sent, appended or marked.  Afterwards the original is never forwarded,
\* announced or marked and no further runner of the item is launched, while
\* the dispatched runners go on: each can still return from Process and
\* complete its send, and it ends only by announcing its clone, marking it
\* and posting its outcome.
C16_AbandonedOnPublishCancel ==
    /\ [](\A a \in Items :
             status[a] = "abandoned"
                 => /\ ~InOutput(Orig(a))
                    /\ processed[Orig(a)] = 0
                    /\ marked[Orig(a)] = 0
                    /\ Launched(a) = 1..(created[a] - 1)
                    /\ newData[CloneOf(a, created[a])] = 0
                    /\ \A k \in Launched(a) :
                          /\ runners[<<a, k>>] = "process"
                                => ENABLED TaskProcess(a, k)
                          /\ runners[<<a, k>>] = "announce"
                                => ENABLED TaskFinish(a, k)
                          /\ processed[CloneOf(a, k)] =
                                 IF runners[<<a, k>>] = "exit" THEN 1 ELSE 0
                          /\ marked[CloneOf(a, k)] = processed[CloneOf(a, k)]
                    /\ Len(done[a]) = Cardinality(Posted(a)))
    /\ [][\A a \in Items :
             (status[a] = "active" /\ status'[a] = "abandoned")
                 => /\ ctxDone
                    /\ ex.pc = "publish" /\ ex.data = a /\ ex.j = 0
                    /\ Launched(a) = 1..(ex.i - 1)
                    /\ ex' = IdleEx
                    /\ loopPc' = "select"
                    /\ UNCHANGED <<runners, done>>
                    /\ UNCHANGED logVars]_vars

C16_Witness ==
    \E a, b \in Items :
        /\ status[a] = "abandoned"
        /\ runners[<<a, 1>>] = "process"
        /\ status[b] = "abandoned"
        /\ created[b] = NumTasks
        /\ \A k \in 1..(NumTasks - 1) :
              /\ runners[<<b, k>>] = "exit"
              /\ processed[CloneOf(b, k)] = 1
              /\ marked[CloneOf(b, k)] = 1

\* C17: cancellation winning the select of the final send.  The executor is
\* at that select only after N receives none of which was nil; when the
\* cancellation case is taken the call returns and the step sends nothing
\* on Output or on the processed channel and marks nothing; the original is
\* then never on Output, never announced and never marked, while its N
\* clones were announced and marked by their runners.
C17_ForwardAbandoned ==
    /\ [](\A a \in Items :
             status[a] = "unsent"
                 => /\ ctxDone
                    /\ ~sawNil[a]
                    /\ Posted(a) = Tasks
                    /\ ~InOutput(Orig(a))
                    /\ processed[Orig(a)] = 0
                    /\ marked[Orig(a)] = 0
                    /\ Announcements(a) = NumTasks)
    /\ [][\A a \in Items :
             (status[a] = "active" /\ status'[a] = "unsent")
                 => /\ ctxDone
                    /\ ex.pc = "forward" /\ ex.data = a
                    /\ ex.j = NumTasks /\ ~ex.failed
                    /\ ex' = IdleEx
                    /\ loopPc' = "select"
                    /\ UNCHANGED <<runners, done>>
                    /\ UNCHANGED logVars]_vars

C17_Witness ==
    \E a \in Items :
        /\ status[a] = "unsent"
        /\ loopPc = "select"
        /\ output = <<>>
        /\ processed[Orig(a)] = 0
        /\ marked[Orig(a)] = 0
        /\ \A k \in Tasks : marked[CloneOf(a, k)] = 1

\* C18: empty-pop tolerance.  A step in which the signal case pops nothing
\* the loop can admit is taken at the select and leaves the loop at its
\* select, not returned; it starts no fan-out, creates no clone, launches no
\* runner, appends nothing to the error sink and sends nothing on NewData,
\* ProcessedData or Output; and an element of the queue that is not a Data
\* is never admitted.
C18_EmptyPopTolerated ==
    /\ [][emptyPops' # emptyPops
            => /\ loopPc = "select"
               /\ loopPc' = "select"
               /\ signal
               /\ queue' = Tail(queue)
               /\ UNCHANGED <<ex, runners, done, status, order, observed>>
               /\ UNCHANGED <<newData, processed, marked, output, errors,
                              created, procErr, sawNil>>]_vars
    /\ [][(queue # <<>> /\ queue' = Tail(queue) /\ Head(queue) = "other")
            => (order' = order /\ emptyPops' = emptyPops + 1)]_vars

C18_Witness ==
    /\ emptyPops = 1
    /\ loopPc = "select"
    /\ observed = "none"
    /\ order = <<>>
    /\ \A a \in Items : created[a] = 0
    /\ errors = 0
    /\ InputReady

\* A nil value is waiting in item a's completion channel.
NilBuffered(a) == \E p \in 1..Len(done[a]) : done[a][p] = Nil

\* C19: the forward-or-drop decision depends only on whether a returned item
\* is nil.  While joining, failed is set exactly when a nil value has been
\* received; the executor takes the failed path exactly when one of the N
\* values was nil and the forward path exactly when none was, whatever the
\* number of entries of the error sink, which counts the non-nil errors
\* only; so an item is dropped exactly when a task returned nil and is
\* forwarded, or its forward abandoned, exactly when none did.
C19_DecisionOnNilOnly ==
    /\ errors = procErr
    /\ ex.pc = "join"
          => (sawNil[ex.data] <=> (ex.failed \/ NilBuffered(ex.data)))
    /\ ex.pc \in {"announce", "mark"} => (ex.failed /\ sawNil[ex.data])
    /\ ex.pc = "forward" => (~ex.failed /\ ~sawNil[ex.data])
    /\ \A a \in Items :
          /\ status[a] = "dropped" => sawNil[a]
          /\ status[a] \in {"forwarded", "unsent"} => ~sawNil[a]

\* One item only: a task returned an error with a non-nil item and the item
\* was forwarded.
C19_Witness ==
    /\ order = <<1>>
    /\ status[1] = "forwarded"
    /\ InOutput(Orig(1))
    /\ errors = 1
    /\ ~sawNil[1]

\* One item only: a task returned a nil item without an error and the item
\* was dropped.
C19_DroppedWithoutError ==
    /\ order = <<1>>
    /\ status[1] = "dropped"
    /\ errors = 0

\* The executor can go on only after a send on the processed channel is
\* received: its own, of the original on the failed path, or that of a
\* runner it is joining when nothing is buffered and every runner that has
\* not posted is at its send.
WaitsOnProcessed ==
    \/ ex.pc = "announce"
    \/ /\ ex.pc = "join"
       /\ done[ex.data] = <<>>
       /\ \A k \in Tasks : runners[<<ex.data, k>>] \in {"announce", "exit"}

\* C20: fan-out liveness.  When every Process call returns and NewData and
\* ProcessedData are always eventually received from, every executeTask
\* call that has started eventually returns (the loop is outside a call
\* again and again), provided Output is eventually received from or the
\* context is eventually cancelled.  And while the executor waits on a send
\* on the processed channel, cancelled context or not, neither it nor the
\* loop takes a step until such a send is received: these sends have no
\* cancellation alternative, so a fan-out whose processed channel is no
\* longer received from blocks, and Run with it.
C20_FanOutLiveness ==
    /\ (WF_vars(ExForward) \/ []<>ctxDone) => []<>(loopPc # "call")
    /\ [][WaitsOnProcessed
            => \/ (ex' = ex /\ loopPc' = loopPc /\ status' = status)
               \/ processed' # processed]_vars

C20_Witness ==
    /\ ctxDone
    /\ ex.pc = "join"
    /\ done[ex.data] = <<>>
    /\ ex.j = 0
    /\ \A k \in Tasks : runners[<<ex.data, k>>] = "announce"

====
